---- MODULE Spec2Model ----
(***************************************************************************)
(* Model of sound-amp (src/src/main.rs): a terminal control surface (main) *)
(* that sends PlayerCommand values over an mpsc channel to a supervisor    *)
(* worker thread (setup_stream), which builds pairs of cpal streams        *)
(* (create_link) bridged by a ringbuf SPSC queue; the control surface also *)
(* builds links of its own on the '-' key (App::link_selected_devices).    *)
(*                                                                         *)
(* f32 values are modelled as integers: every gain the program can hold is *)
(* 0, or 1 plus a multiple of 10, and samples are small integers, so the   *)
(* arithmetic of the model is exact.                                       *)
(***************************************************************************)
EXTENDS Integers, Sequences, FiniteSets, TLC

\* ---------------------------------------------------------------- bounds
\* Ring capacity. The source allocates 48000 slots (RingBuffer::new(48000));
\* the model scales it down so that a full queue is reachable.
Capacity == 2
\* Zero samples pushed before the callbacks start in link_selected_devices
\* (1000 in the source, scaled with Capacity).
PrefillCount == 1
\* Number of key events the control surface reads.
MaxKeys == 2
\* Number of callback invocations the audio subsystem makes, over all links.
MaxCallbacks == 2

\* ------------------------------------------------------ program constants
\* Arc::new(Mutex::new(1f32)) and App.factor: 1.0
InitialGain == 1
\* PlayerCommand::IncreaseVolume(10.0)
IncreaseAmount == 10
\* self.factor - 10.0
DecreaseAmount == 10
\* the floor of decrease_volume, and unwrap_or(0.0) / None => 0.0
Silence == 0

\* The buffer lengths (samples or slots) the audio subsystem hands a callback.
BufferSizes == {1, 2}
\* The input devices the host enumerates, and "nothing selected".
Devices == {1, 2}
NoDevice == 0
\* Content of an output slot the callback has not written yet.
Stale == -1
NoLink == 0

Max(a, b) == IF a > b THEN a ELSE b

\* --------------------------------------------------------------- ringbuf
\* producer.push(v): Ok(()) and the value appended when there is room,
\* Err(v) and the queue unchanged when the queue is full.
RingPushOkAlways(ring) == TRUE

RingPushOk(ring) == Len(ring) < Capacity

RingPush(ring, v) == IF RingPushOk(ring) THEN Append(ring, v) ELSE ring

\* consumer.pop(): Some(oldest) or None.
RingPopValue(ring) == Head(ring)

RingPopPeek(ring) == ring

RingPop(ring) == IF ring = <<>> THEN ring ELSE Tail(ring)

\* for _ in 0..1000 { producer.push(0.0).unwrap(); }
Prefill == [i \in 1..PrefillCount |-> Silence]

\* ------------------------------------------------------------------ state
VARIABLES
    mainPc,        \* control surface: "loop", "done" (returned or panicked)
    keys,          \* key events read so far
    selected,      \* app.input_devices.state.selected(): NoDevice or a device
    factor,        \* app.factor
    link,          \* main's `link` vector: the link it holds, or NoLink
    txAlive,       \* the Sender player_channel exists
    chan,          \* commands in flight in the mpsc channel
    sent,          \* history: every command handed to send(), in order
    workerPc,      \* position of the supervisor worker
    cmd,           \* the command the worker is processing (NoCommand between commands)
    received,      \* history: commands the worker received, in order
    input_stream,  \* worker slot: link whose input stream it holds, or NoLink
    output_stream, \* worker slot: link whose output stream it holds, or NoLink
    newLink,       \* create_link: the link under construction, or NoLink
    old_value,     \* IncreaseVolume: the value read under the first lock (0 outside it)
    volume_factor, \* the Arc<Mutex<f32>> cell
    gainLock,      \* who holds the Mutex of the cell: "free", "worker", "callback"
    links,         \* every link created so far, by id
    calls,         \* callback invocations made so far
    procAlive      \* the process has not exited

vars == <<mainPc, keys, selected, factor, link, txAlive, chan, sent,
          workerPc, cmd, received, input_stream, output_stream, newLink,
          old_value, volume_factor, gainLock, links, calls, procAlive>>

mainVars == <<mainPc, keys, selected, factor, link, txAlive>>
workerVars == <<workerPc, cmd, received, input_stream, output_stream, newLink, old_value>>

\* PlayerCommand
Start(d) == [op |-> "Start", arg |-> d]
IncreaseVolume(a) == [op |-> "IncreaseVolume", arg |-> a]
NoCommand == [op |-> "None", arg |-> 0]

\* ------------------------------------------------------------------ links
\* One link: the two cpal streams, the ring between them, and the state of
\* its two callbacks. pushLog and popLog are history: every push the link's
\* producer made with its outcome, every pop its consumer made.
NoPop == -1
NewLink(owner, dev, gain, ring, inSt, outSt) ==
    [owner |-> owner, dev |-> dev, gain |-> gain, ring |-> ring,
     inSt |-> inSt, outSt |-> outSt,
     captured |-> 0, inData |-> <<>>, inPos |-> 0, locking |-> "no",
     factor_value |-> 0, panicked |-> FALSE,
     outData |-> <<>>, outPos |-> 0,
     pushLog |-> [i \in 1..Len(ring) |-> [raw |-> Silence, cur |-> 1, v |-> ring[i], ok |-> TRUE]],
     popLog |-> <<>>]

\* A link both of whose streams are dropped: its closures and ring are freed.
DeadLink(l) == NewLink(l.owner, l.dev, 0, <<>>, "stopped", "stopped")

LinkIds == 1..Len(links)
InRunning(id) == links[id].inSt = "running"
OutRunning(id) == links[id].outSt = "running"
\* An AudioLink is active while one of its streams runs.
Active(id) == InRunning(id) \/ OutRunning(id)
ActiveLinks == {id \in LinkIds : Active(id)}

\* cpal stops a stream only between two invocations of its callback.
InIdle(id) == IF id = NoLink THEN TRUE
              ELSE links[id].inPos = 0 /\ links[id].locking = "no"
OutIdle(id) == IF id = NoLink THEN TRUE ELSE links[id].outPos = 0

Settle(l) == IF l.inSt \in {"stopped", "none"} /\ l.outSt \in {"stopped", "none"}
             THEN DeadLink(l) ELSE l

\* drop(input stream of id), drop(output stream of id) on the links ls
DropOutLeaks(ls, id) == ls

DropIn(ls, id) ==
    IF id = NoLink THEN ls
    ELSE [ls EXCEPT ![id] = Settle([@ EXCEPT !.inSt = "stopped"])]
DropOut(ls, id) ==
    IF id = NoLink THEN ls
    ELSE [ls EXCEPT ![id] = Settle([@ EXCEPT !.outSt = "stopped"])]
DropBoth(ls, id) == DropOut(DropIn(ls, id), id)

\* The process ends: every thread and stream ends with it.
AllStopped(ls) == [i \in 1..Len(ls) |-> DeadLink(ls[i])]

\* ------------------------------------------------------------------- Init
Init ==
    /\ mainPc = "loop"
    /\ keys = 0
    /\ selected \in {NoDevice} \cup Devices
    /\ factor = InitialGain
    /\ link = NoLink
    /\ txAlive = TRUE
    /\ chan = <<>>
    /\ sent = <<>>
    /\ workerPc = "recv"
    /\ cmd = NoCommand
    /\ received = <<>>
    /\ input_stream = NoLink
    /\ output_stream = NoLink
    /\ newLink = NoLink
    /\ old_value = 0
    /\ volume_factor = InitialGain
    /\ gainLock = "free"
    /\ links = <<>>
    /\ calls = 0
    /\ procAlive = TRUE

\* The worker still owns the Receiver.
RxAlive == workerPc \notin {"panicked", "done"}

\* --------------------------------------------------------- control surface
ReadKey ==
    /\ procAlive
    /\ mainPc = "loop"
    /\ keys < MaxKeys
    /\ keys' = keys + 1

\* player_channel.send(c): queued while the receiver exists, Err (ignored by
\* the caller) once the worker is gone.
Send(c) ==
    /\ sent' = Append(sent, c)
    /\ chan' = IF RxAlive THEN Append(chan, c) ELSE chan

\* main returns or unwinds: `link` and `player_channel` are dropped.
MainEnds ==
    /\ InIdle(link) /\ OutIdle(link)
    /\ mainPc' = "done"
    /\ txAlive' = FALSE
    /\ link' = NoLink
    /\ links' = DropBoth(links, link)

\* KeyCode::Char('q') => break
KeyQuit ==
    /\ ReadKey
    /\ MainEnds
    /\ UNCHANGED <<selected, factor, chan, sent, workerVars, volume_factor, gainLock, calls, procAlive>>

\* KeyCode::Char('+') => send(IncreaseVolume(10.0))
KeyPlus ==
    /\ ReadKey
    /\ Send(IncreaseVolume(IncreaseAmount))
    /\ UNCHANGED <<mainPc, selected, factor, link, txAlive, workerVars, volume_factor, gainLock, links, calls, procAlive>>

\* KeyCode::Enter => send(Start(selected().unwrap()))
KeyEnter ==
    /\ ReadKey
    /\ IF selected = NoDevice
       THEN /\ MainEnds
            /\ UNCHANGED <<chan, sent>>
       ELSE /\ Send(Start(selected))
            /\ UNCHANGED <<mainPc, link, txAlive, links>>
    /\ UNCHANGED <<selected, factor, workerVars, volume_factor, gainLock, calls, procAlive>>

\* Down / Up / Tab: the list navigation moves the selection of the input list.
KeyNavigate ==
    /\ ReadKey
    /\ \E d \in Devices : selected' = d
    /\ UNCHANGED <<mainPc, factor, link, txAlive, chan, sent, workerVars, volume_factor, gainLock, links, calls, procAlive>>

\* App::decrease_volume
DecreaseNoFloor(f) == f - DecreaseAmount

decrease_volume(f) ==
    LET new_factor == f - DecreaseAmount
    IN  IF new_factor > 0 THEN new_factor ELSE Silence

\* KeyCode::Char('-') => decrease_volume(); link = link_selected_devices().unwrap()
\* ok: every expect/unwrap/? of link_selected_devices passes. The new link
\* captures the factor by value, its ring is prefilled, both streams are
\* built and then played; the assignment drops the streams `link` held.
KeyMinus ==
    /\ ReadKey
    /\ factor' = decrease_volume(factor)
    /\ \E ok \in BOOLEAN :
         IF ok /\ selected # NoDevice
         THEN /\ InIdle(link) /\ OutIdle(link)
              /\ links' = Append(DropBoth(links, link),
                                 NewLink("main", selected, factor', Prefill, "running", "running"))
              /\ link' = Len(links) + 1
              /\ UNCHANGED <<mainPc, txAlive>>
         ELSE MainEnds
    /\ UNCHANGED <<selected, chan, sent, workerVars, volume_factor, gainLock, calls, procAlive>>

\* After main has ended the process exits, whatever its threads are doing.
ProcessExit ==
    /\ procAlive
    /\ mainPc = "done"
    /\ procAlive' = FALSE
    /\ links' = AllStopped(links)
    /\ UNCHANGED <<mainVars, chan, sent, workerVars, volume_factor, gainLock, calls>>

\* -------------------------------------------------------- supervisor worker
WorkerStep(pc) ==
    /\ procAlive
    /\ workerPc = pc

\* rx.recv() => Ok(command)
Recv ==
    /\ WorkerStep("recv")
    /\ chan # <<>>
    /\ cmd' = Head(chan)
    /\ chan' = Tail(chan)
    /\ received' = Append(received, Head(chan))
    /\ workerPc' = IF Head(chan).op = "Start" THEN "create_input" ELSE "inc_read"
    /\ UNCHANGED <<mainVars, sent, input_stream, output_stream, newLink, old_value,
                   volume_factor, gainLock, links, calls, procAlive>>

\* rx.recv() => Err: every Sender is gone and the channel is empty. The loop
\* breaks, the closure returns and its locals (the two slots) are dropped.
RecvDisconnectedOnEmpty ==
    /\ WorkerStep("recv")
    /\ chan = <<>>
    /\ InIdle(input_stream) /\ OutIdle(output_stream)
    /\ workerPc' = "done"
    /\ links' = DropOut(DropIn(links, input_stream), output_stream)
    /\ input_stream' = NoLink
    /\ output_stream' = NoLink
    /\ UNCHANGED <<mainVars, chan, sent, cmd, received, newLink, old_value,
                   volume_factor, gainLock, calls, procAlive>>

RecvDisconnected ==
    /\ WorkerStep("recv")
    /\ chan = <<>>
    /\ ~txAlive
    /\ InIdle(input_stream) /\ OutIdle(output_stream)
    /\ workerPc' = "done"
    /\ links' = DropOut(DropIn(links, input_stream), output_stream)
    /\ input_stream' = NoLink
    /\ output_stream' = NoLink
    /\ UNCHANGED <<mainVars, chan, sent, cmd, received, newLink, old_value,
                   volume_factor, gainLock, calls, procAlive>>

\* An expect/unwrap of create_link fails: the worker thread unwinds. The
\* stream create_link had built and the streams in the two slots are
\* dropped, and so is the Receiver with the commands still queued.
WorkerPanics ==
    /\ InIdle(newLink) /\ InIdle(input_stream) /\ OutIdle(output_stream)
    /\ workerPc' = "panicked"
    /\ links' = DropIn(DropOut(DropIn(links, input_stream), output_stream), newLink)
    /\ input_stream' = NoLink
    /\ output_stream' = NoLink
    /\ newLink' = NoLink
    /\ cmd' = NoCommand
    /\ chan' = <<>>

\* s.play(): the Result is discarded, so a stream that failed to start is
\* kept as if it ran.
Played(ok) == IF ok THEN "running" ELSE "built"

\* create_link up to the end of the input_stream block: default output
\* device and format, the ring, the input device by index, build_input_stream
\* with the producer closure, s.play().
CreateInput ==
    /\ WorkerStep("create_input")
    /\ \E ok \in BOOLEAN, played \in BOOLEAN :
         IF ok
         THEN /\ links' = Append(links, NewLink("worker", cmd.arg, 0, <<>>, Played(played), "none"))
              /\ newLink' = Len(links) + 1
              /\ workerPc' = "create_output"
              /\ UNCHANGED <<chan, cmd, input_stream, output_stream>>
         ELSE WorkerPanics
    /\ UNCHANGED <<mainVars, sent, received, old_value, volume_factor, gainLock, calls, procAlive>>

\* create_link, the output_stream block: build_output_stream with the
\* consumer closure, s.play(); the pair is returned.
CreateOutput ==
    /\ WorkerStep("create_output")
    /\ \E ok \in BOOLEAN, played \in BOOLEAN :
         IF ok
         THEN /\ links' = [links EXCEPT ![newLink].outSt = Played(played)]
              /\ workerPc' = "assign_input"
              /\ UNCHANGED <<chan, cmd, input_stream, output_stream, newLink>>
         ELSE WorkerPanics
    /\ UNCHANGED <<mainVars, sent, received, old_value, volume_factor, gainLock, calls, procAlive>>

\* input_stream = Some(link.0): the stream the slot held is dropped.
AssignInput ==
    /\ WorkerStep("assign_input")
    /\ InIdle(input_stream)
    /\ links' = DropIn(links, input_stream)
    /\ input_stream' = newLink
    /\ workerPc' = "assign_output"
    /\ UNCHANGED <<mainVars, chan, sent, cmd, received, output_stream, newLink,
                   old_value, volume_factor, gainLock, calls, procAlive>>

\* output_stream = Some(link.1): the stream the slot held is dropped.
AssignOutputKeepsOld ==
    /\ WorkerStep("assign_output")
    /\ newLink' = NoLink
    /\ cmd' = NoCommand
    /\ workerPc' = "recv"
    /\ UNCHANGED <<mainVars, chan, sent, received, input_stream, output_stream,
                   old_value, volume_factor, gainLock, links, calls, procAlive>>

AssignOutput ==
    /\ WorkerStep("assign_output")
    /\ OutIdle(output_stream)
    /\ links' = DropOut(links, output_stream)
    /\ output_stream' = newLink
    /\ newLink' = NoLink
    /\ cmd' = NoCommand
    /\ workerPc' = "recv"
    /\ UNCHANGED <<mainVars, chan, sent, received, input_stream,
                   old_value, volume_factor, gainLock, calls, procAlive>>

\* volume_factor.lock(): the worker takes the Mutex of the gain cell, for
\* the read at line 245 and again for the write at line 247; it waits while
\* a callback holds it.
LockGain ==
    /\ procAlive
    /\ workerPc \in {"inc_read", "inc_write"}
    /\ gainLock = "free"
    /\ gainLock' = "worker"
    /\ workerPc' = IF workerPc = "inc_read" THEN "inc_read_locked" ELSE "inc_write_locked"
    /\ UNCHANGED <<mainVars, chan, sent, cmd, received, input_stream, output_stream,
                   newLink, old_value, volume_factor, links, calls, procAlive>>

\* let old_value = *volume_factor.lock().unwrap();  (the guard is dropped
\* at the end of the statement)
IncreaseRead ==
    /\ WorkerStep("inc_read_locked")
    /\ old_value' = volume_factor
    /\ gainLock' = "free"
    /\ workerPc' = "inc_write"
    /\ UNCHANGED <<mainVars, chan, sent, cmd, received, input_stream, output_stream,
                   newLink, volume_factor, links, calls, procAlive>>

\* let new_value = old_value + amount; *volume_factor.lock().unwrap() = new_value;
NewValueIgnoresAmount(old, amount) == old

NewValueFromInitial(old, amount) == InitialGain + amount

new_value(old, amount) == old + amount

IncreaseWrite ==
    /\ WorkerStep("inc_write_locked")
    /\ volume_factor' = new_value(old_value, cmd.arg)
    /\ gainLock' = "free"
    /\ cmd' = NoCommand
    /\ old_value' = 0
    /\ workerPc' = "recv"
    /\ UNCHANGED <<mainVars, chan, sent, received, input_stream, output_stream,
                   newLink, links, calls, procAlive>>

\* ---------------------------------------------------------------- callbacks
\* The gain the producer closure multiplies by: the worker's closure uses
\* the factor_value it read from the shared cell when the callback began,
\* the control surface's closure the volume_factor it captured by value.
ProducerGain(l) == IF l.owner = "worker" THEN l.factor_value ELSE l.gain

\* The gain in force at this moment for the link's owner: the shared cell
\* for a worker link, app.factor for a link of the control surface.
CurrentGain(l) == IF l.owner = "worker" THEN volume_factor ELSE factor

\* The audio subsystem invokes the input callback with a buffer of n samples.
\* No closure of the program inspects a sample's value, so the capture
\* device's stream is taken to be 1, 2, 3, ...: all samples distinct.
\* create_link's closure reads the shared gain once, before its loop.
Capture(from, n) == [i \in 1..n |-> from + i]

InputBegin ==
    /\ procAlive
    /\ calls < MaxCallbacks
    /\ \E id \in LinkIds, n \in BufferSizes :
         /\ InRunning(id)
         /\ InIdle(id)
         /\ ~links[id].panicked
         /\ links' = [links EXCEPT ![id] =
                          [@ EXCEPT !.inData = Capture(links[id].captured, n),
                                    !.captured = links[id].captured + n,
                                    !.inPos = IF links[id].owner = "worker" THEN 0 ELSE 1,
                                    !.locking = IF links[id].owner = "worker"
                                                THEN "wait" ELSE "no"]]
    /\ calls' = calls + 1
    /\ UNCHANGED <<mainVars, chan, sent, workerVars, volume_factor, gainLock, procAlive>>

\* factor.lock() in create_link's producer closure: the callback thread
\* waits until the Mutex is free, then holds it.
InputLock ==
    /\ procAlive
    /\ gainLock = "free"
    /\ \E id \in LinkIds :
         /\ links[id].locking = "wait"
         /\ links' = [links EXCEPT ![id].locking = "held"]
    /\ gainLock' = "callback"
    /\ UNCHANGED <<mainVars, chan, sent, workerVars, volume_factor, calls, procAlive>>

\* let factor_value = *factor.lock().unwrap();  the value is copied and the
\* guard dropped; the loop over the samples follows.
InputReadGain ==
    /\ procAlive
    /\ \E id \in LinkIds :
         /\ links[id].locking = "held"
         /\ links' = [links EXCEPT ![id] =
                        [@ EXCEPT !.factor_value = volume_factor,
                                  !.locking = "no", !.inPos = 1]]
    /\ gainLock' = "free"
    /\ UNCHANGED <<mainVars, chan, sent, workerVars, volume_factor, calls, procAlive>>

AfterSample(pos, data) == IF pos = Len(data) THEN 0 ELSE pos + 1

\* One iteration of `for &sample in data`: producer.push(sample * gain).
\* On a full ring the control surface's closure discards the Err; the
\* worker's closure unwraps it and panics, which ends the callback thread
\* (abort = FALSE) or, where the callback is entered from foreign code,
\* aborts the process (abort = TRUE).
InputStep ==
    /\ procAlive
    /\ \E id \in LinkIds :
         LET l == links[id]
             raw == l.inData[l.inPos]
             v == raw * ProducerGain(l)
             ok == RingPushOk(l.ring)
             entry == [raw |-> raw, cur |-> CurrentGain(l), v |-> v, ok |-> ok]
             pushed == [l EXCEPT !.ring = RingPush(l.ring, v),
                                 !.pushLog = Append(l.pushLog, entry)]
             next == AfterSample(l.inPos, l.inData)
         IN  /\ l.inPos > 0
             /\ IF ok \/ l.owner = "main"
                THEN /\ links' = [links EXCEPT ![id] =
                                    [pushed EXCEPT !.inPos = next,
                                                   !.inData = IF next = 0 THEN <<>> ELSE l.inData]]
                     /\ UNCHANGED procAlive
                ELSE \E abort \in BOOLEAN :
                       IF abort
                       THEN /\ procAlive' = FALSE
                            /\ links' = AllStopped(links)
                       ELSE /\ links' = [links EXCEPT ![id] =
                                           [pushed EXCEPT !.inPos = 0, !.inData = <<>>,
                                                          !.panicked = TRUE]]
                            /\ UNCHANGED procAlive
    /\ UNCHANGED <<mainVars, chan, sent, workerVars, volume_factor, gainLock, calls>>

\* The audio subsystem invokes the output callback with n slots to fill.
OutputBegin ==
    /\ procAlive
    /\ calls < MaxCallbacks
    /\ \E id \in LinkIds, n \in BufferSizes :
         /\ OutRunning(id)
         /\ links[id].outPos = 0
         /\ links' = [links EXCEPT ![id] =
                        [@ EXCEPT !.outData = [i \in 1..n |-> Stale], !.outPos = 1]]
    /\ calls' = calls + 1
    /\ UNCHANGED <<mainVars, chan, sent, workerVars, volume_factor, gainLock, procAlive>>

\* *sample = consumer.pop().unwrap_or(0.0)  /  match consumer.pop() { Some(s) => s, None => 0.0 }
OutputSampleSkipsEmpty(ring) == IF ring = <<>> THEN Stale ELSE RingPopValue(ring)

OutputSample(ring) == IF ring = <<>> THEN Silence ELSE RingPopValue(ring)

\* One iteration of `for sample in data`.
OutputStep ==
    /\ procAlive
    /\ \E id \in LinkIds :
         LET l == links[id]
             popped == IF l.ring = <<>> THEN NoPop ELSE RingPopValue(l.ring)
         IN  /\ l.outPos > 0
             /\ links' = [links EXCEPT ![id] =
                            [l EXCEPT !.ring = RingPop(l.ring),
                                      !.popLog = Append(l.popLog, popped),
                                      !.outData[l.outPos] = OutputSample(l.ring),
                                      !.outPos = AfterSample(l.outPos, l.outData)]]
    /\ UNCHANGED <<mainVars, chan, sent, workerVars, volume_factor, gainLock, calls, procAlive>>

\* ---------------------------------------------------------- specification
Next ==
    \/ KeyQuit
    \/ KeyPlus
    \/ KeyEnter
    \/ KeyNavigate
    \/ KeyMinus
    \/ ProcessExit
    \/ Recv
    \/ RecvDisconnected
    \/ CreateInput
    \/ CreateOutput
    \/ AssignInput
    \/ AssignOutput
    \/ LockGain
    \/ IncreaseRead
    \/ IncreaseWrite
    \/ InputBegin
    \/ InputLock
    \/ InputReadGain
    \/ InputStep
    \/ OutputBegin
    \/ OutputStep

Spec == Init /\ [][Next]_vars

\* ---------------------------------------------------------------- helpers
IsPrefix(a, b) == Len(a) <= Len(b) /\ \A i \in 1..Len(a) : a[i] = b[i]

\* The values the producer's pushes put into the ring, in push order.
Accepted(l) ==
    LET kept == SelectSeq(l.pushLog, LAMBDA e : e.ok)
    IN  [i \in 1..Len(kept) |-> kept[i].v]

\* The samples the consumer's pops returned, in pop order.
Popped(l) == SelectSeq(l.popLog, LAMBDA r : r # NoPop)

\* Output slots the current (or last) invocation of the output callback has written.
Written(l) == IF l.outPos = 0 THEN Len(l.outData) ELSE l.outPos - 1

\* ------------------------------------------------------------------ claims

\* C1: at most one AudioLink (a running input/output stream pair) is active
\* in every reachable state, counting the links the worker holds and the
\* links the control surface stores in `link`.
C1_AtMostOneActiveLink == Cardinality(ActiveLinks) <= 1

\* C2: while the worker processes a Start, no stream of the new link is
\* opened while a stream of the link it replaces is still running: the old
\* link is closed first.
C2_CloseBeforeOpen ==
    newLink # NoLink =>
        \A old \in {input_stream, output_stream} \ {NoLink, newLink} : ~Active(old)

\* C3: a Start whose link cannot be opened does not stop the supervisor
\* worker (it stays able to receive a later Start), and leaves it Idle: at a
\* command boundary it holds no stream that failed to start.
C3_FailedStartLeavesIdleWorker ==
    /\ workerPc # "panicked"
    /\ (procAlive /\ workerPc = "recv") =>
          /\ input_stream # NoLink => InRunning(input_stream)
          /\ output_stream # NoLink => OutRunning(output_stream)

\* C4: a push into a full SampleQueue drops the sample and the callback goes
\* on with the next sample: overflow never panics or aborts the callback.
C4_OverflowNeverPanics ==
    \A id \in LinkIds : ~links[id].panicked

\* C5: on every link the consumer receives the accepted samples in push
\* order, none twice and none that was not pushed: what was popped followed
\* by what is still buffered is exactly what was accepted.
C5_Fifo ==
    \A id \in LinkIds : Accepted(links[id]) = Popped(links[id]) \o links[id].ring

C5_Witness ==
    \E id \in LinkIds :
        /\ Len(Popped(links[id])) >= 2
        /\ Popped(links[id])[1] # Popped(links[id])[2]
        /\ Len(Accepted(links[id])) >= 2

\* C6: a link's ring never holds more than Capacity samples; after more than
\* Capacity pushes with no pop it holds exactly the first Capacity values
\* pushed, in order, and exactly the pushes beyond Capacity reported overflow.
C6_BoundedQueue ==
    \A id \in LinkIds :
        LET l == links[id] IN
        /\ Len(l.ring) <= Capacity
        /\ l.popLog = <<>> =>
              /\ \A i \in 1..Len(l.pushLog) : l.pushLog[i].ok <=> i <= Capacity
              /\ Len(l.ring) = IF Len(l.pushLog) < Capacity THEN Len(l.pushLog) ELSE Capacity
              /\ \A i \in 1..Len(l.ring) : l.ring[i] = l.pushLog[i].v

C6_Witness ==
    \E id \in LinkIds :
        /\ links[id].popLog = <<>>
        /\ Len(links[id].pushLog) > Capacity
        /\ Len(links[id].ring) = Capacity

\* C7: the output callback writes every slot it was asked to fill, each
\* with the sample its pop returned or with 0.0 when the pop found the ring
\* empty; a finished invocation leaves no slot unwritten.
C7_OutputFilled ==
    \A id \in LinkIds :
        LET l == links[id]
            k == Written(l)
        IN  /\ k <= Len(l.popLog)
            /\ \A i \in 1..k :
                 LET r == l.popLog[Len(l.popLog) - k + i]
                 IN  l.outData[i] = IF r = NoPop THEN Silence ELSE r

C7_Witness ==
    \E id \in LinkIds :
        /\ links[id].outPos = 0
        /\ Len(links[id].outData) >= 2
        /\ \E i \in 1..Len(links[id].outData) : links[id].outData[i] > Silence
        /\ \E i \in 1..Len(links[id].popLog) : links[id].popLog[i] = NoPop

\* C8: a gain adjustment by d sets the gain to the previous value plus d,
\* floored at 0.0, and no gain a producer callback reads is ever negative.
GainsNonNegative ==
    /\ volume_factor >= Silence
    /\ factor >= Silence
    /\ \A id \in LinkIds : ProducerGain(links[id]) >= Silence

GainAdjusted ==
    /\ (workerPc = "inc_write_locked" /\ workerPc' = "recv") =>
           volume_factor' = Max(Silence, volume_factor + cmd.arg)
    /\ factor' # factor => factor' = Max(Silence, factor - DecreaseAmount)

C9_InOrderNeverLost ==
    /\ IsPrefix(received, sent)
    /\ (procAlive /\ chan = <<>> /\ workerPc \in {"recv", "panicked", "done"}) =>
          received = sent

\* C10: the producer scales every sample by the gain current at that
\* sample: a gain adjustment applies to the very next sample processed.
C10_GainReadPerSample ==
    \A id \in LinkIds :
        \A i \in 1..Len(links[id].pushLog) :
            LET e == links[id].pushLog[i] IN e.v = e.raw * e.cur

\* Every stream that is running, as <<link, end>>.
RunningStreams ==
    {<<id, "in">> : id \in {i \in LinkIds : InRunning(i)}}
        \cup {<<id, "out">> : id \in {i \in LinkIds : OutRunning(i)}}

\* C11: a gain adjustment (increase or decrease) leaves the supervisor
\* state and the set of running streams unchanged: it creates, replaces and
\* tears down no AudioLink.
GainAdjustKeepsLinks ==
    (factor' # factor \/ volume_factor' # volume_factor) =>
        /\ RunningStreams' = RunningStreams
        /\ input_stream' = input_stream
        /\ output_stream' = output_stream
        /\ link' = link

C11_GainAdjustKeepsLinks == [][GainAdjustKeepsLinks]_vars

\* C12: the producer callback's read of the gain never blocks: in no
\* reachable state is an input callback waiting at lock() while the worker
\* holds the Mutex of the gain cell.
C12_GainReadNeverBlocks ==
    \A id \in LinkIds : ~(links[id].locking = "wait" /\ gainLock = "worker")

\* C13: while a link is opened no stream is started before both are built:
\* no state has the input stream running and the output stream not built.
C13_NoHalfOpenLink ==
    \A id \in LinkIds : ~(links[id].inSt = "running" /\ links[id].outSt = "none")

\* C14: after an open that failed at any step no stream runs, of the new
\* link or of the old one, and the supervisor holds no link (Idle).
OpenFailed(id) ==
    /\ links[id].owner = "worker"
    /\ "built" \in {links[id].inSt, links[id].outSt}

C14_FailedOpenLeavesNothingRunning ==
    /\ workerPc = "panicked" =>
          /\ input_stream = NoLink /\ output_stream = NoLink
          /\ \A id \in LinkIds : links[id].owner = "worker" => ~Active(id)
    /\ (procAlive /\ workerPc = "recv") =>
          \A id \in LinkIds : OpenFailed(id) =>
              /\ ~Active(id)
              /\ id \notin {input_stream, output_stream}

\* C15: after Start(deviceA) and then Start(deviceB) have been processed and
\* B's streams run, exactly one link is active, it is bound to deviceB, and
\* every other link is stopped with no callback of it invoked since.
SwitchCompleted ==
    /\ procAlive
    /\ workerPc = "recv"
    /\ Len(received) = 2
    /\ received[1].op = "Start" /\ received[2].op = "Start"
    /\ link = NoLink
    /\ input_stream # NoLink /\ output_stream # NoLink
    /\ InRunning(input_stream) /\ OutRunning(output_stream)

RECURSIVE SumIncreases(_)
SumIncreases(cs) ==
    IF cs = <<>> THEN 0
    ELSE (IF Head(cs).op = "IncreaseVolume" THEN Head(cs).arg ELSE 0) + SumIncreases(Tail(cs))

AppliedGain ==
    InitialGain + SumIncreases(received)
        - (IF cmd.op = "IncreaseVolume" THEN cmd.arg ELSE 0)

\* C16: the gain starts at 1.0 and outlives every link: whenever the
\* producer of a link opened by a Start reads the gain, it reads 1.0 plus
\* every adjustment applied so far, whether applied in Idle or under an
\* earlier link.
GainReadIsAccumulated ==
    \A id \in LinkIds :
        (links[id].locking = "held" /\ procAlive' /\ links'[id].locking = "no") =>
            links'[id].factor_value = AppliedGain

C17_GainAtProduction ==
    \A id \in LinkIds :
        LET acc == SelectSeq(links[id].pushLog, LAMBDA e : e.ok)
            out == Popped(links[id])
        IN  \A j \in 1..Len(out) :
                /\ j <= Len(acc)
                /\ out[j] = acc[j].raw * acc[j].cur

\* C18: no gain update is lost: the cell holds 1.0 plus the amounts of all
\* IncreaseVolume commands the worker has finished, whatever the callbacks
\* do between the worker's read and its write.
C18_NoGainUpdateLost == volume_factor = AppliedGain

C18_Witness ==
    /\ workerPc = "recv"
    /\ volume_factor = InitialGain + IncreaseAmount
    /\ \E id \in LinkIds :
          /\ links[id].owner = "worker"
          /\ links[id].inPos > 0
          /\ links[id].factor_value = InitialGain

\* C19: whenever the worker waits for its next command its two slots are
\* both empty or both hold the streams of the same create_link call.
C19_SlotsHoldOneLink == workerPc = "recv" => input_stream = output_stream

C19_Witness ==
    /\ workerPc = "recv"
    /\ input_stream = 2
    /\ output_stream = 2
    /\ Active(2)

\* C20 as claimed: once the control surface has dropped the sender and the
\* process has ended, the worker has finished the queued commands and left
\* its loop.
C20_WorkerDrainsThenTerminates ==
    (~procAlive /\ mainPc = "done" /\ workerPc # "panicked") =>
        (workerPc = "done" /\ received = sent)

\* C20 as amended: the worker leaves its loop only through a failed receive,
\* after the sender was dropped and every command sent was received, and it
\* then holds and runs no stream; the process exit that follows main's
\* return may end the worker before that.
C20_WorkerExitDropsStreams ==
    workerPc = "done" =>
        /\ ~txAlive
        /\ chan = <<>>
        /\ received = sent
        /\ input_stream = NoLink /\ output_stream = NoLink
        /\ \A id \in LinkIds : links[id].owner = "worker" => ~Active(id)

C20_Witness ==
    /\ workerPc = "done"
    /\ procAlive
    /\ Len(received) >= 1
    /\ \E id \in LinkIds : links[id].owner = "worker"

====
